---- MODULE Spec2Model ----
(***************************************************************************)
(* Model of the cinema lookup pipeline of Gedeon:                          *)
(*   cinemas.py    _query_overpass (failover fetch), find_cinemas          *)
(*   showtimes.py  enrich_cinemas_with_showtimes and its lookup chain      *)
(*                                                                         *)
(* Fixed-point conventions.  Python floats are modelled as integers:      *)
(*   - kilometres (radius_km, dist, distanceKm) are integer METRES,        *)
(*     i.e. km with three decimals: 1.0 km = 1000, 0.5 km = 500;           *)
(*   - degrees (latitude, longitude) are integers in units of 0.0001       *)
(*     degree, so that round(lat, 3) has something to round.               *)
(* Python's None / str / number distinction is kept by tagged values       *)
(* [k |-> kind, v |-> number].                                             *)
(***************************************************************************)
EXTENDS Integers, Sequences, FiniteSets, TLC

VARIABLES
    pc,          \* position of the find_cinemas call
    center_lat,  \* argument center_lat (tagged value, then its float)
    center_lon,  \* argument center_lon
    req_radius,  \* argument radius_km as passed by the caller
    radius_km,   \* local radius_km after lines 96-99
    max_results, \* argument max_results
    url_idx,     \* loop position in "for url in OVERPASS_URLS"
    posted,      \* network history: the requests.post calls made, in order
    served,      \* network history: what the answering endpoint sent back
    last_error,  \* local last_error of _query_overpass
    data,        \* value returned by _query_overpass
    raised,      \* exception that left find_cinemas ("" when none)
    cinemas,     \* value returned by find_cinemas
    epc,                  \* position of the enrich_cinemas_with_showtimes call
    given,                \* history: its argument cinemas as passed
    batch,                \* its argument cinemas, mutated in place
    date_str,             \* its local date_str
    max_cinemas,          \* its argument max_cinemas
    count,                \* its local count
    pos,                  \* position of "for cinema in cinemas" in the list
    _DEPT_NAME_CACHE,     \* module global: cache key -> department name or None
    _DEPARTMENTS_BY_NAME, \* module global: None, or normalized name -> id
    _CITIES_BY_NAME,      \* module global: None, or normalized name -> id
    _CINEMAS_BY_DEPT,     \* module global: location id -> list of cinemas
    visited,              \* history: per list position, where its lookup chain ended
    contacted,            \* history: <<list position, upstream operation>> calls made
    catalog_requests,     \* history: the identifiers get_cinema was called with, in order
    eraised,              \* exception that left enrich_cinemas_with_showtimes
    rpc,          \* position of a _find_best_allocine_cinema call
    arg_candidates,   \* the list _get_cinemas_for_dept gave it
    arg_target_name,  \* its argument target_name
    ret_best,         \* its return value
    lookups,          \* history: the calls of _reverse_geocode_department made on their own
    threads,          \* per request thread, where it stands in a cache population
    tpc,              \* position of a _format_showtime_list call
    arg_raw_list,     \* its argument raw_list
    ret_times         \* its return value

\* the variables of find_cinemas and those of the enrichment
fvars == <<pc, center_lat, center_lon, req_radius, radius_km, max_results,
           url_idx, posted, served, last_error, data, raised, cinemas>>

evars == <<epc, given, batch, date_str, max_cinemas, count, pos, _DEPT_NAME_CACHE,
           _DEPARTMENTS_BY_NAME, _CITIES_BY_NAME, _CINEMAS_BY_DEPT, visited,
           contacted, catalog_requests, eraised>>

rvars == <<rpc, arg_candidates, arg_target_name, ret_best>>

\* the variables of the functions that are also exercised on their own
tvars == <<tpc, arg_raw_list, ret_times>>

uvars == <<rvars, lookups, threads, tvars>>

vars == <<fvars, evars, uvars>>

-----------------------------------------------------------------------------
(* Bounds of the model *)

\* longest element list an Overpass endpoint returns
MaxElems == 2

\* longest catalog given to _find_best_allocine_cinema on its own
MaxCands == 2

\* most calls of _reverse_geocode_department made on their own
MaxLookups == 3

\* longest list given to _format_showtime_list on its own
MaxTimes == 3

\* longest list passed to enrich_cinemas_with_showtimes
MaxPois == 2

-----------------------------------------------------------------------------
(* Python values *)

None == [k |-> "none", v |-> 0]
Num(x) == [k |-> "num", v |-> x]
NumStr(x) == [k |-> "numstr", v |-> x]
BadStr == [k |-> "badstr", v |-> 0]

\* float(x): succeeds on numbers and numeric strings, raises TypeError on
\* None and ValueError on any other string.
FloatOk(x) == x.k \in {"num", "numstr"}
Float(x) == x.v

Abs(x) == IF x < 0 THEN -x ELSE x
Min(a, b) == IF a <= b THEN a ELSE b

-----------------------------------------------------------------------------
(* cinemas.py: constants *)

OVERPASS_URLS == <<"overpass-api.de", "overpass.openstreetmap.fr", "overpass.kumi.systems">>

\* MAX_RADIUS_KM = 100.0, in metres
MAX_RADIUS_KM == 100000

\* the replacement radius "radius_km = 1.0", in metres
DEFAULT_MIN_RADIUS_KM == 1000

-----------------------------------------------------------------------------
(* cinemas.py: pure helpers *)

\* Great-circle arc of a central angle given in units of 0.0001 degree, in
\* metres: R * radians(angle) with R = 6371.0 km, i.e. 11.1195 m per unit
\* (the product is split to stay within 32-bit integers).
ArcMetres(angle) ==
    (angle \div 10000) * 111195 + ((angle % 10000) * 111195) \div 10000

\* the central angle c = 2 * atan2(sqrt(a), sqrt(1 - a)) of an angle
\* difference d with a = sin^2(d / 2): d below 180 degrees, 360 - d above
Wrap(d) == IF d > 1800000 THEN 3600000 - d ELSE d

\* _haversine_km.  The modelled points share a meridian with the centre
\* (dlambda = 0, so a = sin^2(dphi/2) and c = |dphi|) or lie with it on the
\* equator (phi1 = phi2 = 0, so a = sin^2(dlambda/2) and c = |dlambda|); the
\* remaining pairs of the model differ by more than 90 degrees of latitude
\* and less than 0.01 degree of longitude, where the second term of a
\* changes c by less than a metre.
_haversine_km(lat1, lon1, lat2, lon2) ==
    IF lon2 - lon1 = 0 \/ ~(lat1 = 0 /\ lat2 = 0)
    THEN ArcMetres(Wrap(Abs(lat2 - lat1)))
    ELSE ArcMetres(Wrap(Abs(lon2 - lon1)))

\* round(dist, 1): to the nearest tenth of a km (100 m), ties to even.
Round1(dist) ==
    LET q == dist \div 100
        r == dist % 100
    IN  IF r < 50 THEN q * 100
        ELSE IF r > 50 THEN (q + 1) * 100
        ELSE IF q % 2 = 0 THEN q * 100 ELSE (q + 1) * 100

\* _build_overpass_query: radius_m = int(radius_km * 1000), and the text of
\* the query is determined by (radius_m, lat, lon).
_build_overpass_query(lat, lon, radius) ==
    [radius_m |-> radius, lat |-> lat, lon |-> lon]

\* find_cinemas lines 96-99: the radius actually used.
ClampRadius_NoCap(r) == IF r <= 0 THEN DEFAULT_MIN_RADIUS_KM ELSE r
ClampRadius(r) ==
    LET r1 == IF r <= 0 THEN DEFAULT_MIN_RADIUS_KM ELSE r
    IN  IF r1 > MAX_RADIUS_KM THEN MAX_RADIUS_KM ELSE r1

\* line 109: "if osm_id in seen_ids: continue"
IsDuplicate(el, seen_ids) == el.id \in seen_ids

\* lines 118-124: the coordinate pair the element type selects
RawLat_DirectFirst(el) == IF el.lat.k # "none" THEN el.lat ELSE el.clat
RawLat(el) == IF el.type = "node" THEN el.lat ELSE el.clat
RawLon(el) == IF el.type = "node" THEN el.lon ELSE el.clon

\* line 136: "if dist > radius_km: continue"
TooFar_Never(dist, radius) == FALSE
TooFar(dist, radius) == dist > radius

\* lines 108-137: TRUE when the loop body reaches cinemas.append for el
Kept(el, seen_ids, clat, clon, radius) ==
    /\ ~IsDuplicate(el, seen_ids)
    /\ el.name # ""
    /\ RawLat(el).k # "none" /\ RawLon(el).k # "none"
    /\ FloatOk(RawLat(el)) /\ FloatOk(RawLon(el))
    /\ ~TooFar(_haversine_km(clat, clon, Float(RawLat(el)), Float(RawLon(el))), radius)

\* lines 152-161: the dict appended for el (address, city and osmTags are
\* copies of tag text and are not modelled)
MakeCinema(el, clat, clon) ==
    [id |-> el.id,
     name |-> el.name,
     latitude |-> Float(RawLat(el)),
     longitude |-> Float(RawLon(el)),
     distanceKm |-> Round1(_haversine_km(clat, clon, Float(RawLat(el)), Float(RawLon(el))))]

\* lines 104-162: the loop "for el in elements", from position i on
RECURSIVE CollectFrom(_, _, _, _, _, _)
CollectFrom(elements, i, seen_ids, clat, clon, radius) ==
    IF i > Len(elements) THEN <<>>
    ELSE IF Kept(elements[i], seen_ids, clat, clon, radius)
         THEN <<MakeCinema(elements[i], clat, clon)>>
              \o CollectFrom(elements, i + 1, seen_ids \cup {elements[i].id}, clat, clon, radius)
         ELSE CollectFrom(elements, i + 1, seen_ids, clat, clon, radius)

Collect(elements, clat, clon, radius) ==
    CollectFrom(elements, 1, {}, clat, clon, radius)

\* line 165: cinemas.sort(key=distanceKm), a stable sort
RECURSIVE InsertByDistance(_, _)
InsertByDistance(c, sorted) ==
    IF sorted = <<>> THEN <<c>>
    ELSE IF c.distanceKm < Head(sorted).distanceKm
         THEN <<c>> \o sorted
         ELSE <<Head(sorted)>> \o InsertByDistance(c, Tail(sorted))

RECURSIVE SortFrom(_, _)
SortFrom(cs, n) ==
    IF n = 0 THEN <<>>
    ELSE InsertByDistance(cs[n], SortFrom(cs, n - 1))

SortByDistance_Unsorted(cs) == cs
SortByDistance(cs) == SortFrom(cs, Len(cs))

\* lines 167-168: "if max_results and max_results > 0: cinemas[:max_results]"
Truncate_Never(cs, m) == cs
Truncate(cs, m) ==
    IF m # 0 /\ m > 0 THEN SubSeq(cs, 1, Min(m, Len(cs))) ELSE cs

\* lines 102-171: find_cinemas after _query_overpass has returned
ProcessResponse(d, clat, clon, radius, m) ==
    Truncate(SortByDistance(Collect(d.elements, clat, clon, radius)), m)

-----------------------------------------------------------------------------
(* Inputs: what callers pass and what the Overpass mirrors answer *)

El(t, i, n, la, lo, cla, clo) ==
    [type |-> t, id |-> i, name |-> n, lat |-> la, lon |-> lo, clat |-> cla, clon |-> clo]

\* Raw Overpass elements: nodes with direct coordinates, ways with a
\* centroid, a relation with neither, a node that only has a centroid and a
\* way that has both.  Offsets of 0.045, 0.18, 0.27 and 1.08 degrees of
\* latitude are 5.0, 20.0, 30.0 and 120.1 km from a centre at (0, 0); 0.007
\* degree of longitude on the equator is 0.8 km.
RawElements ==
    { El("node", 1, "UGC", Num(450), Num(0), None, None),
      El("way", 1, "Gaumont", None, None, Num(1800), Num(0)),
      El("node", 1, "Pathe", NumStr(2700), NumStr(0), None, None),
      El("node", 2, "", Num(450), Num(0), None, None),
      El("way", 3, "Rex", None, None, Num(10800), Num(0)),
      El("node", 4, "Lux", Num(0), Num(70), None, None),
      El("relation", 5, "Star", None, None, None, None),
      El("node", 6, "Vox", BadStr, Num(0), None, None),
      El("node", 7, "Cine", None, None, Num(450), Num(0)),
      El("way", 8, "Eden", Num(450), Num(0), Num(1800), Num(0)) }

RECURSIVE SeqsUpTo(_, _)
SeqsUpTo(S, n) ==
    IF n = 0 THEN {<<>>}
    ELSE LET shorter == SeqsUpTo(S, n - 1)
         IN  shorter \cup {Append(q, x) : q \in {t \in shorter : Len(t) = n - 1}, x \in S}

\* the JSON bodies a mirror may answer with
Bodies == {[elements |-> es] : es \in SeqsUpTo(RawElements, MaxElems)}

\* center_lat / center_lon as received
CenterArgs == {Num(0), BadStr, None}

\* center_lat as received: the above and 95 degrees, beyond the poles
LatitudeArgs == CenterArgs \cup {Num(950000)}

\* radius_km as received, in metres: 0, 0.5, 30 and 150 km
RadiusArgs == {0, 500, 30000, 150000}

\* max_results as received (0 stands for every falsy value, None included)
MaxResultsArgs == {-1, 0, 1, 250}

\* how one requests.post can fail: status 504, raise_for_status on another
\* non-2xx status, or a transport error (timeouts included)
FailureKinds == {"504", "http", "network"}

NoError == [kind |-> "none", url |-> ""]

-----------------------------------------------------------------------------
(* cinemas.py: _query_overpass and find_cinemas as steps *)

\* lines 60 and 67: the value assigned to last_error
NoteFailure_KeepFirst(prev, kind, url) ==
    IF prev = NoError THEN [kind |-> kind, url |-> url] ELSE prev
NoteFailure(prev, kind, url) == [kind |-> kind, url |-> url]

\* lines 48, 61, 68: "continue" moves the for loop to the next URL
NextTarget_Same(i) == i
NextTarget(i) == i + 1

\* lines 70-71: what _query_overpass does once the loop is exhausted
AllFailed_Raise(err) == [raised |-> "RequestException", data |-> [elements |-> <<>>]]
AllFailed(err) == [raised |-> "", data |-> [elements |-> <<>>]]

FindInit ==
    /\ pc = "idle"
    /\ center_lat = None
    /\ center_lon = None
    /\ req_radius = 0
    /\ radius_km = 0
    /\ max_results = 0
    /\ url_idx = 0
    /\ posted = <<>>
    /\ served = [from |-> 0, failed |-> NoError, body |-> [elements |-> <<>>]]
    /\ last_error = NoError
    /\ data = [elements |-> <<>>]
    /\ raised = ""
    /\ cinemas = <<>>

\* find_cinemas lines 74-101, up to the first requests.post
Call(clat, clon, r, m) ==
    /\ pc = "idle"
    /\ center_lat' = clat
    /\ center_lon' = clon
    /\ req_radius' = r
    /\ max_results' = m
    /\ IF FloatOk(clat) /\ FloatOk(clon)
       THEN /\ radius_km' = ClampRadius(r)
            /\ url_idx' = 1
            /\ pc' = "fetching"
            /\ raised' = ""
       ELSE /\ raised' = "ValueError"
            /\ pc' = "raised"
            /\ UNCHANGED <<radius_km, url_idx>>
    /\ UNCHANGED <<posted, served, last_error, data, cinemas>>

\* the request of lines 51-56
Request ==
    [url |-> OVERPASS_URLS[url_idx],
     query |-> _build_overpass_query(Float(center_lat), Float(center_lon), radius_km)]

\* _query_overpass returns d to find_cinemas, which runs lines 102-171
Return(d) ==
    /\ data' = d
    /\ cinemas' = ProcessResponse(d, Float(center_lat), Float(center_lon), radius_km, max_results)
    /\ pc' = "done"

\* lines 51-64: the endpoint answers 2xx with body
PostOk(body) ==
    /\ pc = "fetching"
    /\ url_idx <= Len(OVERPASS_URLS)
    /\ posted' = Append(posted, Request)
    /\ served' = [served EXCEPT !.from = url_idx, !.body = body]
    /\ Return(body)
    /\ UNCHANGED <<center_lat, center_lon, req_radius, radius_km, max_results,
                   url_idx, last_error, raised>>

\* lines 51-68 with a failing endpoint, then lines 70-71 after the last one
PostFails(kind) ==
    /\ pc = "fetching"
    /\ url_idx <= Len(OVERPASS_URLS)
    /\ posted' = Append(posted, Request)
    /\ served' = [served EXCEPT !.failed = [kind |-> kind, url |-> OVERPASS_URLS[url_idx]]]
    /\ last_error' = NoteFailure(last_error, kind, OVERPASS_URLS[url_idx])
    /\ url_idx' = NextTarget(url_idx)
    /\ IF url_idx' > Len(OVERPASS_URLS)
       THEN /\ raised' = AllFailed(last_error').raised
            /\ IF raised' = ""
               THEN Return(AllFailed(last_error').data)
               ELSE pc' = "raised" /\ UNCHANGED <<data, cinemas>>
       ELSE UNCHANGED <<pc, data, cinemas, raised>>
    /\ UNCHANGED <<center_lat, center_lon, req_radius, radius_km, max_results>>

\* A caller invokes find_cinemas.  (The guard on pc is stated before the
\* inputs so that they are only enumerated where the step can happen.)
FindCinemas ==
    /\ pc = "idle"
    /\ \E clat \in LatitudeArgs, clon \in CenterArgs, r \in RadiusArgs, m \in MaxResultsArgs :
          Call(clat, clon, r, m)
    /\ UNCHANGED <<evars, uvars>>

\* The mirror being contacted answers with a body.
EndpointAnswers ==
    /\ pc = "fetching"
    /\ \E body \in Bodies : PostOk(body)
    /\ UNCHANGED <<evars, uvars>>

\* The mirror being contacted fails.
EndpointFails ==
    /\ pc = "fetching"
    /\ \E kind \in FailureKinds : PostFails(kind)
    /\ UNCHANGED <<evars, uvars>>

-----------------------------------------------------------------------------
(* showtimes.py: text.  A Python str is a sequence of one-character        *)
(* strings; NoneS stands for None where a str is optional.                 *)

NoneS == <<"None">>

\* "not s" for an optional str
Falsy(s) == s = NoneS \/ s = <<>>

UpperChars == <<"A", "B", "C", "D", "E", "F", "G", "H", "I", "J", "K", "L", "M", "N", "O", "P", "Q", "R", "S", "T", "U", "V", "W", "X", "Y", "Z", "É", "È", "Î", "Ô">>
LowerChars == <<"a", "b", "c", "d", "e", "f", "g", "h", "i", "j", "k", "l", "m", "n", "o", "p", "q", "r", "s", "t", "u", "v", "w", "x", "y", "z", "é", "è", "î", "ô">>
AccentedChars == <<"é", "è", "ê", "î", "ô", "ç">>
BaseChars == <<"e", "e", "e", "i", "o", "c">>

\* characters kept by _normalize_text: "abcdefghijklmnopqrstuvwxyz0123456789 "
AllowedChars ==
    {LowerChars[i] : i \in 1..26} \cup {"0", "1", "2", "3", "4", "5", "6", "7", "8", "9", " "}

IndexIn(ch, table) ==
    IF \E i \in 1..Len(table) : table[i] = ch
    THEN CHOOSE i \in 1..Len(table) : table[i] = ch
    ELSE 0

\* str.lower() on one character
LowerChar(ch) ==
    LET i == IndexIn(ch, UpperChars) IN IF i = 0 THEN ch ELSE LowerChars[i]

\* NFD decomposition followed by the removal of the combining marks (Mn)
StripAccent(ch) ==
    LET i == IndexIn(ch, AccentedChars) IN IF i = 0 THEN ch ELSE BaseChars[i]

\* str.split(): the maximal runs of non-space characters from position i on,
\* with cur the run being read
RECURSIVE SplitFrom(_, _, _)
SplitFrom(s, i, cur) ==
    IF i > Len(s) THEN (IF cur = <<>> THEN <<>> ELSE <<cur>>)
    ELSE IF s[i] = " "
         THEN (IF cur = <<>> THEN <<>> ELSE <<cur>>) \o SplitFrom(s, i + 1, <<>>)
         ELSE SplitFrom(s, i + 1, Append(cur, s[i]))

Split(s) == SplitFrom(s, 1, <<>>)

\* " ".join(tokens)
RECURSIVE Join(_)
Join(tokens) ==
    IF tokens = <<>> THEN <<>>
    ELSE IF Len(tokens) = 1 THEN tokens[1]
    ELSE tokens[1] \o <<" ">> \o Join(Tail(tokens))

\* _normalize_text
_normalize_text_KeepCase(s) ==
    IF Falsy(s) THEN <<>>
    ELSE LET mapped == [i \in 1..Len(s) |->
                          LET c == StripAccent(s[i])
                          IN  IF c \in AllowedChars THEN c ELSE " "]
         IN  Join(Split(mapped))
_normalize_text(s) ==
    IF Falsy(s) THEN <<>>
    ELSE LET mapped == [i \in 1..Len(s) |->
                          LET c == StripAccent(LowerChar(s[i]))
                          IN  IF c \in AllowedChars THEN c ELSE " "]
         IN  Join(Split(mapped))

\* "a in b" for two str
IsSubstring(a, b) ==
    \E i \in 0..(Len(b) - Len(a)) : SubSeq(b, i + 1, i + Len(a)) = a

\* s.startswith(p)
StartsWith(s, p) == Len(p) <= Len(s) /\ SubSeq(s, 1, Len(p)) = p

\* set(s.split())
TokenSet(s) == {Split(s)[i] : i \in 1..Len(Split(s))}

-----------------------------------------------------------------------------
(* showtimes.py: the department of a point (Nominatim) *)

\* DEPT_CODE_TO_NAME, in source order
DEPT_CODE_TO_NAME ==
    << <<<<"7", "5">>, <<"P", "a", "r", "i", "s">>>>,
       <<<<"7", "7">>, <<"S", "e", "i", "n", "e", "-", "e", "t", "-", "M", "a", "r", "n", "e">>>>,
       <<<<"7", "8">>, <<"Y", "v", "e", "l", "i", "n", "e", "s">>>>,
       <<<<"9", "1">>, <<"E", "s", "s", "o", "n", "n", "e">>>>,
       <<<<"9", "2">>, <<"H", "a", "u", "t", "s", "-", "d", "e", "-", "S", "e", "i", "n", "e">>>>,
       <<<<"9", "3">>, <<"S", "e", "i", "n", "e", "-", "S", "a", "i", "n", "t", "-", "D", "e", "n", "i", "s">>>>,
       <<<<"9", "4">>, <<"V", "a", "l", "-", "d", "e", "-", "M", "a", "r", "n", "e">>>>,
       <<<<"9", "5">>, <<"V", "a", "l", "-", "d", "'", "O", "i", "s", "e">>>> >>

\* the prefixes of _clean_dept_name, in source order
DeptPrefixes ==
    << <<"D", "é", "p", "a", "r", "t", "e", "m", "e", "n", "t", " ", "d", "e", " ">>,
       <<"D", "e", "p", "a", "r", "t", "e", "m", "e", "n", "t", " ", "d", "e", " ">>,
       <<"D", "e", "p", "a", "r", "t", "m", "e", "n", "t", " ", "o", "f", " ">>,
       <<"D", "é", "p", "a", "r", "t", "e", "m", "e", "n", "t", " ">>,
       <<"D", "e", "p", "a", "r", "t", "m", "e", "n", "t", " ">> >>

ILE_DE_FRANCE == <<"Î", "l", "e", "-", "d", "e", "-", "F", "r", "a", "n", "c", "e">>

\* a Nominatim address: the fields the code reads, NoneS when absent
Addr(county, state_district, state, postcode) ==
    [county |-> county, state_district |-> state_district, state |-> state, postcode |-> postcode]

\* {} : what _call_nominatim returns on failure or for an empty answer
EmptyAddr == Addr(NoneS, NoneS, NoneS, NoneS)

\* the loop of _clean_dept_name from prefix i on: every matching prefix is cut off
RECURSIVE CutPrefixesFrom(_, _)
CutPrefixesFrom(name, i) ==
    IF i > Len(DeptPrefixes) THEN name
    ELSE IF StartsWith(name, DeptPrefixes[i])
         THEN CutPrefixesFrom(SubSeq(name, Len(DeptPrefixes[i]) + 1, Len(name)), i + 1)
         ELSE CutPrefixesFrom(name, i + 1)

_clean_dept_name(name) ==
    IF Falsy(name) THEN NoneS ELSE CutPrefixesFrom(name, 1)

\* str.strip()
RECURSIVE Strip(_)
Strip(s) ==
    IF s = <<>> THEN s
    ELSE IF Head(s) = " " THEN Strip(Tail(s))
    ELSE IF s[Len(s)] = " " THEN Strip(SubSeq(s, 1, Len(s) - 1))
    ELSE s

\* DEPT_CODE_TO_NAME.get(code2)
DeptOfCode(code2) ==
    IF \E i \in 1..Len(DEPT_CODE_TO_NAME) : DEPT_CODE_TO_NAME[i][1] = code2
    THEN DEPT_CODE_TO_NAME[CHOOSE i \in 1..Len(DEPT_CODE_TO_NAME) : DEPT_CODE_TO_NAME[i][1] = code2][2]
    ELSE NoneS

\* lines 99-104 and 112-117: the department of a postcode, or None
DeptOfPostcode(raw) ==
    LET postcode == Strip(IF Falsy(raw) THEN <<>> ELSE raw)
    IN  IF Len(postcode) >= 2 THEN DeptOfCode(SubSeq(postcode, 1, 2)) ELSE NoneS

_extract_department_name_from_address(address) ==
    IF address = EmptyAddr THEN NoneS
    ELSE IF ~Falsy(address.county) THEN _clean_dept_name(address.county)
    ELSE IF ~Falsy(address.state_district) THEN _clean_dept_name(address.state_district)
    ELSE IF address.state = ILE_DE_FRANCE THEN DeptOfPostcode(address.postcode)
    ELSE IF ~Falsy(address.state) THEN _clean_dept_name(address.state)
    ELSE DeptOfPostcode(address.postcode)

\* round(x, 3) for x in units of 0.0001 degree: to the nearest 10, ties to even
Round3(x) ==
    LET a == Abs(x)
        q == a \div 10
        r == a % 10
        up == IF r < 5 THEN q ELSE IF r > 5 THEN q + 1 ELSE IF q % 2 = 0 THEN q ELSE q + 1
    IN  IF x < 0 THEN -(up * 10) ELSE up * 10

\* line 149: the cache key of a point
CacheKey(lat, lon) == <<Round3(lat), Round3(lon)>>

\* line 162: the condition of the second, finer request
NeedsSecondPass_AnyPostcode(dept_name, address) ==
    /\ Falsy(dept_name)
    /\ address.state = ILE_DE_FRANCE
NeedsSecondPass(dept_name, address) ==
    /\ Falsy(dept_name)
    /\ address.state = ILE_DE_FRANCE
    /\ Falsy(address.county)
    /\ Falsy(address.postcode)

\* line 183: the bounding box of Paris, 48.80..48.90 and 2.25..2.42
InParisBox(lat, lon) ==
    /\ 488000 <= lat /\ lat <= 489000
    /\ 22500 <= lon /\ lon <= 24200

PARIS == <<"P", "a", "r", "i", "s">>

\* _reverse_geocode_department on a cache miss, address1 and address2 being
\* what _call_nominatim returns at zoom 10 and at zoom 18: the name found
\* (NoneS for None) and the zooms requested
GeocodeMiss(lat, lon, address1, address2) ==
    LET first == _extract_department_name_from_address(address1)
        second == NeedsSecondPass(first, address1)
        dept_name == IF second THEN _extract_department_name_from_address(address2) ELSE first
        zooms == IF second THEN <<10, 18>> ELSE <<10>>
    IN  IF ~Falsy(dept_name) THEN [name |-> dept_name, zooms |-> zooms]
        ELSE IF InParisBox(lat, lon) THEN [name |-> PARIS, zooms |-> zooms]
        ELSE [name |-> NoneS, zooms |-> zooms]

\* lines 167, 178, 185 and 194: "_DEPT_NAME_CACHE[key] = ..."
Remember_FoundOnly(cache, key, name) ==
    IF Falsy(name) THEN cache
    ELSE [k \in DOMAIN cache \cup {key} |-> IF k = key THEN name ELSE cache[k]]
Remember(cache, key, name) ==
    [k \in DOMAIN cache \cup {key} |-> IF k = key THEN name ELSE cache[k]]

\* _reverse_geocode_department: the name returned, the zooms requested from
\* Nominatim and the cache afterwards
_reverse_geocode_department(cache, lat, lon, address1, address2) ==
    LET key == CacheKey(lat, lon)
    IN  IF key \in DOMAIN cache
        THEN [name |-> cache[key], zooms |-> <<>>, cache |-> cache]
        ELSE LET r == GeocodeMiss(lat, lon, address1, address2)
             IN  [name |-> r.name, zooms |-> r.zooms,
                  cache |-> Remember(cache, key, r.name)]

-----------------------------------------------------------------------------
(* showtimes.py: Allocine departments, cities and cinemas *)

\* A dict with str keys is a sequence of <<key, value>> pairs in insertion
\* order.  d[k] = v:
DictPut(d, k, v) ==
    IF \E i \in 1..Len(d) : d[i][1] = k
    THEN [i \in 1..Len(d) |-> IF d[i][1] = k THEN <<k, v>> ELSE d[i]]
    ELSE Append(d, <<k, v>>)

DictHas(d, k) == \E i \in 1..Len(d) : d[i][1] = k

DictGet(d, k) == d[CHOOSE i \in 1..Len(d) : d[i][1] = k][2]

\* the module-level maps _DEPARTMENTS_BY_NAME and _CITIES_BY_NAME: None
\* until loaded
NotLoaded == [loaded |-> FALSE, items |-> <<>>]
Loaded(items) == [loaded |-> TRUE, items |-> items]

\* lines 214-221 and 239-246: the map built from the list the API returned
RECURSIVE BuildNameMap(_, _, _)
BuildNameMap(ret, i, mapping) ==
    IF i > Len(ret) THEN mapping
    ELSE IF Falsy(ret[i].name) \/ ret[i].id = ""
         THEN BuildNameMap(ret, i + 1, mapping)
         ELSE BuildNameMap(ret, i + 1, DictPut(mapping, _normalize_text(ret[i].name), ret[i].id))

\* _load_departments and _load_cities: answer is the list the API returns,
\* up is FALSE when the API call raises
LoadNameMap(current, answer, up) ==
    IF current.loaded THEN current
    ELSE IF ~up THEN Loaded(<<>>)
    ELSE Loaded(BuildNameMap(answer, 1, <<>>))

\* lines 263-272 and 283-292: exact match, then the first key in insertion
\* order that contains norm or is contained in it; "" when there is none
RECURSIVE FirstIncluding(_, _, _)
FirstIncluding(items, norm, i) ==
    IF i > Len(items) THEN ""
    ELSE IF IsSubstring(norm, items[i][1]) \/ IsSubstring(items[i][1], norm)
         THEN items[i][2]
         ELSE FirstIncluding(items, norm, i + 1)

LookupName_ExactOnly(items, name) ==
    LET norm == _normalize_text(name)
    IN  IF DictHas(items, norm) THEN DictGet(items, norm) ELSE ""
LookupName(items, name) ==
    LET norm == _normalize_text(name)
    IN  IF DictHas(items, norm) THEN DictGet(items, norm)
        ELSE FirstIncluding(items, norm, 1)

\* _get_department_id_for_name (with _get_city_id_for_name): the id found
\* ("" for None), the two maps afterwards and the API calls made
_get_department_id_for_name(name, departments, cities, dept_answer, dept_up, city_answer, city_up) ==
    IF Falsy(name)
    THEN [id |-> "", departments |-> departments, cities |-> cities, calls |-> {}]
    ELSE LET deps == LoadNameMap(departments, dept_answer, dept_up)
             dep_calls == IF departments.loaded THEN {} ELSE {"get_departements"}
             did == IF deps.items # <<>> THEN LookupName(deps.items, name) ELSE ""
         IN  IF did # ""
             THEN [id |-> did, departments |-> deps, cities |-> cities, calls |-> dep_calls]
             ELSE LET cits == LoadNameMap(cities, city_answer, city_up)
                      cit_calls == IF cities.loaded THEN {} ELSE {"get_top_villes"}
                      vid == IF cits.items # <<>> THEN LookupName(cits.items, name) ELSE ""
                  IN  [id |-> vid, departments |-> deps, cities |-> cits,
                       calls |-> dep_calls \cup cit_calls]

\* line 304: "if dept_id in _CINEMAS_BY_DEPT"
CatalogCached_Never(cache, dept_id) == FALSE
CatalogCached(cache, dept_id) == dept_id \in DOMAIN cache

\* lines 307 and 313: "_CINEMAS_BY_DEPT[dept_id] = ..."
StoreCatalog(cache, dept_id, ret) ==
    [d \in DOMAIN cache \cup {dept_id} |-> IF d = dept_id THEN ret ELSE cache[d]]

\* _get_cinemas_for_dept: the list returned, the cache afterwards and
\* whether the API was called
_get_cinemas_for_dept(cache, dept_id, answer, up) ==
    IF CatalogCached(cache, dept_id)
    THEN [ret |-> cache[dept_id], cache |-> cache, called |-> FALSE]
    ELSE LET ret == IF up THEN answer ELSE <<>>
         IN  [ret |-> ret, cache |-> StoreCatalog(cache, dept_id, ret), called |-> TRUE]

NoMatch == [found |-> FALSE, name |-> NoneS, id |-> ""]
Match(c) == [found |-> TRUE, name |-> c.name, id |-> c.id]

\* lines 339-348: the score of a candidate that is not an exact match
Score(target_norm, c_norm) ==
    (IF IsSubstring(target_norm, c_norm) \/ IsSubstring(c_norm, target_norm) THEN 3 ELSE 0)
    + (IF TokenSet(target_norm) # {} /\ TokenSet(c_norm) # {}
       THEN Cardinality(TokenSet(target_norm) \cap TokenSet(c_norm))
       ELSE 0)

\* the acceptance threshold of line 355
MIN_SCORE == 2

\* line 336: "if c_norm == target_norm: return c"
IsExact_Never(c_norm, target_norm) == FALSE
IsExact(c_norm, target_norm) == c_norm = target_norm

\* line 350: "if score > best_score"
Improves_OrTies(score, best_score) == score >= best_score
Improves(score, best_score) == score > best_score

\* lines 329-357: the scan from candidate i on
RECURSIVE ScanCandidates(_, _, _, _, _)
ScanCandidates(candidates, target_norm, i, best, best_score) ==
    IF i > Len(candidates)
    THEN (IF best.found /\ best_score >= MIN_SCORE THEN best ELSE NoMatch)
    ELSE LET c == candidates[i]
             c_norm == _normalize_text(c.name)
         IN  IF Falsy(c.name)
             THEN ScanCandidates(candidates, target_norm, i + 1, best, best_score)
             ELSE IF IsExact(c_norm, target_norm) THEN Match(c)
             ELSE IF Improves(Score(target_norm, c_norm), best_score)
                  THEN ScanCandidates(candidates, target_norm, i + 1, Match(c),
                                      Score(target_norm, c_norm))
                  ELSE ScanCandidates(candidates, target_norm, i + 1, best, best_score)

\* _find_best_allocine_cinema, given the candidates of the department
_find_best_allocine_cinema(candidates, target_name) ==
    IF candidates = <<>> THEN NoMatch
    ELSE IF _normalize_text(target_name) = <<>> THEN NoMatch
    ELSE ScanCandidates(candidates, _normalize_text(target_name), 1, NoMatch, -1)

-----------------------------------------------------------------------------
(* showtimes.py: showtimes *)

\* a raw showtime: an ISO-8601 text, read as hour and minute by
\* datetime.fromisoformat, or a text it rejects
Iso(hh, mm) == [k |-> "iso", hh |-> hh, mm |-> mm]
BadTime == [k |-> "bad", hh |-> 0, mm |-> 0]

\* strftime("%H:%M")
HHMM(t) == [hh |-> t.hh, mm |-> t.mm]

\* lines 370-371: "except Exception: continue", what a text that does not
\* parse adds to times
OnUnparsable_Keep(t) == <<t>>
OnUnparsable(t) == <<>>

\* _format_showtime_list
RECURSIVE _format_showtime_list(_)
_format_showtime_list(raw_list) ==
    IF raw_list = <<>> THEN <<>>
    ELSE IF Head(raw_list).k = "iso"
         THEN <<HHMM(Head(raw_list))>> \o _format_showtime_list(Tail(raw_list))
         ELSE OnUnparsable(Head(raw_list)) \o _format_showtime_list(Tail(raw_list))

\* lines 428-446: one formatted entry per raw entry
FormatEntries(raw_showtimes) ==
    [i \in 1..Len(raw_showtimes) |->
        [title |-> raw_showtimes[i].title,
         duration |-> raw_showtimes[i].duration,
         vf |-> _format_showtime_list(raw_showtimes[i].VF),
         vo |-> _format_showtime_list(raw_showtimes[i].VO),
         vost |-> _format_showtime_list(raw_showtimes[i].VOST)]]

-----------------------------------------------------------------------------
(* The services enrichment talks to: what they answer when they answer *)

\* Nominatim reverse geocoding of (lat, lon) at a zoom: Toulouse has a
\* county; the centre of Paris has only the region at zoom 10 and a postcode
\* at zoom 18; Versailles has region and postcode; Melun, outside the Paris
\* box, has only the region at zoom 10 and a postcode at zoom 18; a point at
\* the northern edge of the region has the region and a postcode of the
\* neighbouring Oise; elsewhere nothing
Nominatim(lat, lon, zoom) ==
    IF CacheKey(lat, lon) = <<436040, 14440>>
    THEN Addr(<<"H", "a", "u", "t", "e", "-", "G", "a", "r", "o", "n", "n", "e">>, NoneS, <<"O", "c", "c", "i", "t", "a", "n", "i", "e">>, <<"3", "1", "0", "0", "0">>)
    ELSE IF CacheKey(lat, lon) = <<488570, 23520>>
    THEN (IF zoom = 10
          THEN Addr(NoneS, NoneS, <<"Î", "l", "e", "-", "d", "e", "-", "F", "r", "a", "n", "c", "e">>, NoneS)
          ELSE Addr(NoneS, NoneS, <<"Î", "l", "e", "-", "d", "e", "-", "F", "r", "a", "n", "c", "e">>, <<"7", "5", "0", "0", "4">>))
    ELSE IF CacheKey(lat, lon) = <<488050, 21200>>
    THEN Addr(NoneS, NoneS, <<"Î", "l", "e", "-", "d", "e", "-", "F", "r", "a", "n", "c", "e">>, <<"7", "8", "0", "0", "0">>)
    ELSE IF CacheKey(lat, lon) = <<485400, 26600>>
    THEN (IF zoom = 10
          THEN Addr(NoneS, NoneS, <<"Î", "l", "e", "-", "d", "e", "-", "F", "r", "a", "n", "c", "e">>, NoneS)
          ELSE Addr(NoneS, NoneS, <<"Î", "l", "e", "-", "d", "e", "-", "F", "r", "a", "n", "c", "e">>, <<"7", "7", "0", "0", "0">>))
    ELSE IF CacheKey(lat, lon) = <<491500, 24500>>
    THEN Addr(NoneS, NoneS, <<"Î", "l", "e", "-", "d", "e", "-", "F", "r", "a", "n", "c", "e">>, <<"6", "0", "5", "8", "0">>)
    ELSE EmptyAddr

Named(name, id) == [name |-> name, id |-> id]

\* allocineAPI.get_departements()
AllocineDepartments ==
    << Named(<<"H", "a", "u", "t", "e", "-", "G", "a", "r", "o", "n", "n", "e">>, "departement-31"),
       Named(NoneS, "departement-0"),
       Named(<<"R", "h", "ô", "n", "e">>, "departement-69") >>

\* allocineAPI.get_top_villes()
AllocineCities ==
    << Named(<<"L", "y", "o", "n">>, "ville-lyon"),
       Named(<<"P", "a", "r", "i", "s">>, "ville-paris") >>

\* allocineAPI.get_cinema(location id)
AllocineCinemas(dept_id) ==
    IF dept_id = "departement-31"
    THEN << Named(<<"G", "a", "u", "m", "o", "n", "t", " ", "W", "i", "l", "s", "o", "n">>, "P0101"),
            Named(<<"U", "G", "C", " ", "T", "o", "u", "l", "o", "u", "s", "e">>, "P0102") >>
    ELSE IF dept_id = "ville-paris"
    THEN << Named(NoneS, "C0000"),
            Named(<<"L", "e", " ", "G", "r", "a", "n", "d", " ", "R", "e", "x">>, "C0065") >>
    ELSE <<>>

RawEntry(title, duration, vf, vo, vost) ==
    [title |-> title, duration |-> duration, VF |-> vf, VO |-> vo, VOST |-> vost]

\* allocineAPI.get_showtime(cinema id, date): one film at the UGC, nothing
\* on the programme of the Grand Rex
AllocineShowtimes(cinema_id, date) ==
    IF cinema_id = "P0102"
    THEN << RawEntry("Dune", "2h35", <<Iso(14, 0), BadTime, Iso(16, 30)>>, <<>>, <<Iso(20, 15)>>) >>
    ELSE <<>>

\* _call_nominatim: {} when the request fails
_call_nominatim(lat, lon, zoom, up) ==
    IF up THEN Nominatim(lat, lon, zoom) ELSE EmptyAddr

-----------------------------------------------------------------------------
(* showtimes.py: get_showtimes_for_cinema and enrich_cinemas_with_showtimes *)

\* _get_default_date_str()
TODAY == "today"
NoDate == "None"

\* lines 422-426: the call of get_showtime; a failure is caught and gives []
FetchShowtimes_Propagates(cinema_id, date, up) ==
    IF up THEN [raised |-> "", raw |-> AllocineShowtimes(cinema_id, date)]
    ELSE [raised |-> "Exception", raw |-> <<>>]
FetchShowtimes(cinema_id, date, up) ==
    IF up THEN [raised |-> "", raw |-> AllocineShowtimes(cinema_id, date)]
    ELSE [raised |-> "", raw |-> <<>>]

\* the module globals as one record, with the identifiers get_cinema was
\* called with so far
Globals ==
    [dept_name_cache |-> _DEPT_NAME_CACHE, departments |-> _DEPARTMENTS_BY_NAME,
     cities |-> _CITIES_BY_NAME, cinemas_by_dept |-> _CINEMAS_BY_DEPT,
     catalog_requests |-> catalog_requests]

\* What one call of get_showtimes_for_cinema gives: the list returned, the
\* exception raised ("" when none), the globals afterwards, the upstream
\* operations called and the place where the chain ended.  Each upstream
\* call either answers or fails, so a call has a set of possible outcomes.
Outcome(showtimes, exc, g, calls, ended) ==
    [showtimes |-> showtimes, raised |-> exc, globals |-> g, calls |-> calls, ended |-> ended]

ZoomCalls(zooms) == {IF zooms[i] = 10 THEN "nominatim10" ELSE "nominatim18" : i \in 1..Len(zooms)}

\* lines 418-446, best_cinema being the match found
AfterMatch(g, calls, best_cinema, date) ==
    IF best_cinema.id = "" THEN {Outcome(<<>>, "", g, calls, "no_cinema_id")}
    ELSE { LET fetched == FetchShowtimes(best_cinema.id, date, up)
           IN  IF fetched.raised # ""
               THEN Outcome(<<>>, fetched.raised, g, calls \cup {"get_showtime"}, "raised")
               ELSE IF ~up
               THEN Outcome(<<>>, "", g, calls \cup {"get_showtime"}, "fetch_failed")
               ELSE Outcome(FormatEntries(fetched.raw), "", g, calls \cup {"get_showtime"},
                            IF fetched.raw = <<>> THEN "no_showtimes" ELSE "fetched")
           : up \in BOOLEAN }

\* lines 413-416, cat being what _get_cinemas_for_dept gave
AfterCatalog(g, calls, cat, cinema_name, date) ==
    IF ~_find_best_allocine_cinema(cat.ret, cinema_name).found
    THEN {Outcome(<<>>, "", [g EXCEPT !.cinemas_by_dept = cat.cache],
                  calls \cup (IF cat.called THEN {"get_cinema"} ELSE {}), "no_match")}
    ELSE AfterMatch([g EXCEPT !.cinemas_by_dept = cat.cache],
                    calls \cup (IF cat.called THEN {"get_cinema"} ELSE {}),
                    _find_best_allocine_cinema(cat.ret, cinema_name), date)

\* lines 408-413, dep being what _get_department_id_for_name gave
AfterDepartmentId(g, calls, dep, cinema_name, date) ==
    IF dep.id = ""
    THEN {Outcome(<<>>, "", [g EXCEPT !.departments = dep.departments, !.cities = dep.cities],
                  calls \cup dep.calls, "no_department_id")}
    ELSE UNION { AfterCatalog([g EXCEPT !.departments = dep.departments, !.cities = dep.cities,
                                        !.catalog_requests =
                                            IF cat.called THEN Append(@, dep.id) ELSE @],
                              calls \cup dep.calls, cat, cinema_name, date)
                 : cat \in { _get_cinemas_for_dept(g.cinemas_by_dept, dep.id,
                                                   AllocineCinemas(dep.id), up)
                             : up \in BOOLEAN } }

\* lines 404-408, geo being what _reverse_geocode_department gave
AfterGeocode(g, geo, cinema_name, date) ==
    IF Falsy(geo.name)
    THEN {Outcome(<<>>, "", [g EXCEPT !.dept_name_cache = geo.cache],
                  ZoomCalls(geo.zooms), "no_department")}
    ELSE UNION { AfterDepartmentId([g EXCEPT !.dept_name_cache = geo.cache],
                                   ZoomCalls(geo.zooms), dep, cinema_name, date)
                 : dep \in { _get_department_id_for_name(geo.name, g.departments, g.cities,
                                 AllocineDepartments, dept_up, AllocineCities, city_up)
                             : dept_up \in BOOLEAN, city_up \in BOOLEAN } }

\* get_showtimes_for_cinema: its possible outcomes
get_showtimes_for_cinema(g, cinema_name, cinema_lat, cinema_lon, date) ==
    IF ~(FloatOk(cinema_lat) /\ FloatOk(cinema_lon))
    THEN {Outcome(<<>>, "", g, {}, "bad_coordinate")}
    ELSE UNION { AfterGeocode(g, geo, cinema_name, date)
                 : geo \in { _reverse_geocode_department(g.dept_name_cache,
                                 Float(cinema_lat), Float(cinema_lon),
                                 _call_nominatim(Float(cinema_lat), Float(cinema_lon), 10, up10),
                                 _call_nominatim(Float(cinema_lat), Float(cinema_lon), 18, up18))
                             : up10 \in BOOLEAN, up18 \in BOOLEAN } }

\* a cinema dict as find_cinemas builds it: no "showtimes" key yet
Poi(name, lat, lon) ==
    [name |-> name, latitude |-> lat, longitude |-> lon,
     has_showtimes |-> FALSE, showtimes |-> <<>>, showtimesDate |-> NoDate]

\* the cinemas a caller may pass: in Toulouse and listed by Allocine, in
\* Paris, without a name, without a latitude, at a point Nominatim knows
\* nothing about, in a department Allocine does not list, and in Toulouse
\* but unknown to Allocine
PoiCatalog ==
    { Poi(<<"U", "G", "C">>, Num(436045), Num(14442)),
      Poi(<<"L", "e", " ", "R", "e", "x">>, NumStr(488566), NumStr(23522)),
      Poi(NoneS, Num(436045), Num(14442)),
      Poi(<<"V", "o", "x">>, None, Num(14442)),
      Poi(<<"S", "t", "a", "r">>, Num(0), Num(0)),
      Poi(<<"C", "y", "r", "a", "n", "o">>, Num(488049), Num(21204)),
      Poi(<<"L", "u", "x">>, Num(436045), Num(14442)) }

\* cinemas lists passed to enrich_cinemas_with_showtimes
Batches == SeqsUpTo(PoiCatalog, MaxPois)

\* max_cinemas as passed
MaxCinemasArgs == {0, 1, 2}

\* date_str as passed
DateArgs == {NoDate, "2026-01-15"}

\* line 464: "if count >= max_cinemas: break"
BreakLoop_Never(n, limit) == FALSE
BreakLoop(n, limit) == n >= limit

\* line 470: "if not name or lat is None or lon is None: continue"
MissingField(cinema) ==
    Falsy(cinema.name) \/ cinema.latitude.k = "none" \/ cinema.longitude.k = "none"

\* line 474: "if showtimes:"
ShouldAttach_Always(showtimes) == TRUE
ShouldAttach(showtimes) == showtimes # <<>>

\* lines 475-476
Attach(cinema, showtimes, date) ==
    [cinema EXCEPT !.has_showtimes = TRUE, !.showtimes = showtimes, !.showtimesDate = date]

EnrichInit ==
    /\ epc = "idle"
    /\ given = <<>>
    /\ batch = <<>>
    /\ date_str = NoDate
    /\ max_cinemas = 0
    /\ count = 0
    /\ pos = 0
    /\ _DEPT_NAME_CACHE = <<>>
    /\ _DEPARTMENTS_BY_NAME = NotLoaded
    /\ _CITIES_BY_NAME = NotLoaded
    /\ _CINEMAS_BY_DEPT = <<>>
    /\ visited = <<>>
    /\ contacted = {}
    /\ catalog_requests = <<>>
    /\ eraised = ""

\* the for loop moves on from position p with n cinemas enriched: the next
\* iteration starts unless the list is exhausted or line 464 breaks
AfterPosition(p, n, list, limit) ==
    IF p + 1 > Len(list) \/ BreakLoop(n, limit) THEN "done" ELSE "loop"

\* enrich_cinemas_with_showtimes lines 449-465, up to the first loop body
CallEnrich(list, date, limit) ==
    /\ epc = "idle"
    /\ given' = list
    /\ batch' = list
    /\ max_cinemas' = limit
    /\ IF list = <<>>
       THEN /\ epc' = "done"
            /\ UNCHANGED <<date_str, count, pos>>
       ELSE /\ date_str' = (IF date = NoDate THEN TODAY ELSE date)
            /\ count' = 0
            /\ pos' = 1
            /\ epc' = AfterPosition(0, 0, list, limit)
    /\ UNCHANGED <<_DEPT_NAME_CACHE, _DEPARTMENTS_BY_NAME, _CITIES_BY_NAME,
                   _CINEMAS_BY_DEPT, visited, contacted, catalog_requests, eraised>>

\* lines 467-471: the cinema at pos lacks a name or a coordinate
SkipIncomplete ==
    /\ epc = "loop"
    /\ MissingField(batch[pos])
    /\ visited' = Append(visited, "missing_field")
    /\ pos' = pos + 1
    /\ epc' = AfterPosition(pos, count, batch, max_cinemas)
    /\ UNCHANGED <<given, batch, date_str, max_cinemas, count, _DEPT_NAME_CACHE,
                   _DEPARTMENTS_BY_NAME, _CITIES_BY_NAME, _CINEMAS_BY_DEPT,
                   contacted, catalog_requests, eraised>>

\* lines 473-477: the loop body once get_showtimes_for_cinema has given r
Conclude(cinema, r) ==
    LET attach == r.raised = "" /\ ShouldAttach(r.showtimes)
    IN  /\ _DEPT_NAME_CACHE' = r.globals.dept_name_cache
        /\ _DEPARTMENTS_BY_NAME' = r.globals.departments
        /\ _CITIES_BY_NAME' = r.globals.cities
        /\ _CINEMAS_BY_DEPT' = r.globals.cinemas_by_dept
        /\ visited' = Append(visited, r.ended)
        /\ contacted' = contacted \cup {<<pos, c>> : c \in r.calls}
        /\ catalog_requests' = r.globals.catalog_requests
        /\ eraised' = r.raised
        /\ batch' = IF attach
                    THEN [batch EXCEPT ![pos] = Attach(cinema, r.showtimes, date_str)]
                    ELSE batch
        /\ count' = IF attach THEN count + 1 ELSE count
        /\ pos' = pos + 1
        /\ epc' = IF r.raised # "" THEN "raised"
                  ELSE AfterPosition(pos, count', batch, max_cinemas)

\* lines 467-477: one loop body with a call of get_showtimes_for_cinema
LookUp ==
    /\ epc = "loop"
    /\ ~MissingField(batch[pos])
    /\ \E r \in get_showtimes_for_cinema(Globals, batch[pos].name, batch[pos].latitude,
                                         batch[pos].longitude, date_str) :
          Conclude(batch[pos], r)
    /\ UNCHANGED <<given, date_str, max_cinemas>>

\* A caller invokes enrich_cinemas_with_showtimes.
Enrich ==
    /\ epc = "idle"
    /\ \E list \in Batches, date \in DateArgs, limit \in MaxCinemasArgs :
          CallEnrich(list, date, limit)
    /\ UNCHANGED <<fvars, uvars>>

\* The loop skips a cinema without name or coordinate.
EnrichSkip == SkipIncomplete /\ UNCHANGED <<fvars, uvars>>

\* The loop looks one cinema up, each upstream call answering or failing.
EnrichLookUp == LookUp /\ UNCHANGED <<fvars, uvars>>

-----------------------------------------------------------------------------
(* showtimes.py: _find_best_allocine_cinema on its own *)

\* Catalog entries for a target "Le Rex": two that normalize to "le rex",
\* two that share both words without containing it (score 2), one contained
\* in it (3 + 1), one that contains it (3 + 2), one sharing a single word
\* (1), one without a word in common (0), one whose name normalizes to ""
\* and one without a name.
CandidatePool ==
    { Named(<<"L", "e", " ", "R", "e", "x">>, "C0001"),
      Named(<<"L", "E", " ", "R", "E", "X", "!">>, "C0002"),
      Named(<<"L", "e", " ", "G", "r", "a", "n", "d", " ", "R", "e", "x">>, "C0003"),
      Named(<<"L", "e", " ", "P", "e", "t", "i", "t", " ", "R", "e", "x">>, "C0004"),
      Named(<<"R", "e", "x">>, "C0005"),
      Named(<<"R", "e", "x", " ", "C", "l", "u", "b">>, "C0006"),
      Named(<<"L", "e", " ", "R", "e", "x", " ", "C", "l", "u", "b">>, "C0010"),
      Named(<<"L", "u", "x">>, "C0007"),
      Named(<<"!", "!">>, "C0008"),
      Named(NoneS, "C0009") }

\* the catalogs of a department
CandidateLists == SeqsUpTo(CandidatePool, MaxCands)

\* the names of the cinemas looked for: "Le Rex", "le rex" with other
\* punctuation, a name that normalizes to "" and None
TargetNames ==
    { <<"L", "e", " ", "R", "e", "x">>, <<"l", "e", "-", "r", "e", "x">>, <<"?">>, NoneS }

\* no call of _find_best_allocine_cinema on its own
ResolveIdle ==
    /\ rpc = "idle"
    /\ arg_candidates = <<>>
    /\ arg_target_name = NoneS
    /\ ret_best = NoMatch

\* a call of _find_best_allocine_cinema about to run
ResolveInit ==
    /\ rpc = "called"
    /\ arg_candidates \in CandidateLists
    /\ arg_target_name \in TargetNames
    /\ ret_best = NoMatch

\* lines 319-357, the catalog being in hand
Resolve ==
    /\ rpc = "called"
    /\ ret_best' = _find_best_allocine_cinema(arg_candidates, arg_target_name)
    /\ rpc' = "returned"
    /\ UNCHANGED <<arg_candidates, arg_target_name, lookups, threads, tvars>>
    /\ UNCHANGED <<fvars, evars>>

-----------------------------------------------------------------------------
(* showtimes.py: _reverse_geocode_department on its own *)

\* the points looked up: two in Toulouse that round to the same key, the
\* centre of Paris, Versailles, Melun, the northern edge of Ile-de-France
\* and a point Nominatim knows nothing about
LookupPoints ==
    { <<436042, 14442>>, <<436038, 14438>>, <<488566, 23522>>, <<488049, 21204>>,
      <<485397, 26603>>, <<491502, 24498>>, <<0, 0>> }

\* no call made yet
LocateInit == lookups = <<>>

\* one call of _reverse_geocode_department(lat, lon), the requests to
\* Nominatim at zoom 10 and 18 answering (up10, up18) or failing
Locate(lat, lon, up10, up18) ==
    LET coarse == _call_nominatim(lat, lon, 10, up10)
        r == _reverse_geocode_department(_DEPT_NAME_CACHE, lat, lon, coarse,
                                         _call_nominatim(lat, lon, 18, up18))
    IN  /\ _DEPT_NAME_CACHE' = r.cache
        /\ lookups' = Append(lookups, [point |-> <<lat, lon>>, key |-> CacheKey(lat, lon),
                                       name |-> r.name, zooms |-> r.zooms,
                                       coarse |-> coarse])
        /\ UNCHANGED <<epc, given, batch, date_str, max_cinemas, count, pos,
                       _DEPARTMENTS_BY_NAME, _CITIES_BY_NAME, _CINEMAS_BY_DEPT,
                       visited, contacted, catalog_requests, eraised>>

\* Some code calls _reverse_geocode_department.
ReverseGeocode ==
    /\ Len(lookups) < MaxLookups
    /\ \E p \in LookupPoints, up10 \in BOOLEAN, up18 \in BOOLEAN :
          Locate(p[1], p[2], up10, up18)
    /\ UNCHANGED <<fvars, rvars, threads, tvars>>

-----------------------------------------------------------------------------
(* showtimes.py: the caches under concurrent requests.  The server handles *)
(* each request in a thread of its own; a thread that finds a cache entry  *)
(* missing calls Allocine and writes the entry when the call is over,      *)
(* while other threads run.                                                *)

\* the request threads
Threads == {1, 2}

\* the identifiers catalogs are asked for
CatalogIds == {"departement-31", "ville-paris"}

\* the name maps and the call that loads each
NameMaps == {"get_departements", "get_top_villes"}

Idle == [pc |-> "idle", arg |-> "", hit |-> FALSE]

RaceInit == threads = [t \in Threads |-> Idle]

\* _get_cinemas_for_dept lines 304-306: thread t returns the cached list or
\* starts the call get_cinema(dept_id)
CatalogEnter(t, dept_id) ==
    /\ threads[t].pc = "idle"
    /\ threads' = [threads EXCEPT ![t] =
                      IF CatalogCached(_CINEMAS_BY_DEPT, dept_id)
                      THEN [pc |-> "idle", arg |-> dept_id, hit |-> TRUE]
                      ELSE [pc |-> "get_cinema", arg |-> dept_id, hit |-> FALSE]]
    /\ UNCHANGED <<_CINEMAS_BY_DEPT, _DEPARTMENTS_BY_NAME, _CITIES_BY_NAME>>

\* lines 306-314: the call of thread t is over and its result is stored
CatalogStore(t, up) ==
    /\ threads[t].pc = "get_cinema"
    /\ _CINEMAS_BY_DEPT' =
          StoreCatalog(_CINEMAS_BY_DEPT, threads[t].arg,
                       IF up THEN AllocineCinemas(threads[t].arg) ELSE <<>>)
    /\ threads' = [threads EXCEPT ![t].pc = "idle"]
    /\ UNCHANGED <<_DEPARTMENTS_BY_NAME, _CITIES_BY_NAME>>

\* _load_departments / _load_cities lines 203-207: thread t returns when the
\* map is there or starts the call that loads it
NameMapEnter(t, call) ==
    /\ threads[t].pc = "idle"
    /\ threads' = [threads EXCEPT ![t] =
                      IF (IF call = "get_departements" THEN _DEPARTMENTS_BY_NAME
                          ELSE _CITIES_BY_NAME).loaded
                      THEN [pc |-> "idle", arg |-> call, hit |-> TRUE]
                      ELSE [pc |-> call, arg |-> call, hit |-> FALSE]]
    /\ UNCHANGED <<_CINEMAS_BY_DEPT, _DEPARTMENTS_BY_NAME, _CITIES_BY_NAME>>

\* lines 207-223: the call of thread t is over and the map is assigned
NameMapStore(t, up) ==
    /\ threads[t].pc \in NameMaps
    /\ IF threads[t].pc = "get_departements"
       THEN /\ _DEPARTMENTS_BY_NAME' = LoadNameMap(NotLoaded, AllocineDepartments, up)
            /\ UNCHANGED _CITIES_BY_NAME
       ELSE /\ _CITIES_BY_NAME' = LoadNameMap(NotLoaded, AllocineCities, up)
            /\ UNCHANGED _DEPARTMENTS_BY_NAME
    /\ threads' = [threads EXCEPT ![t].pc = "idle"]
    /\ UNCHANGED _CINEMAS_BY_DEPT

\* what the steps of the threads leave alone
RaceFrame ==
    UNCHANGED <<fvars, rvars, tvars, lookups, epc, given, batch, date_str, max_cinemas, count,
                pos, _DEPT_NAME_CACHE, visited, contacted, catalog_requests, eraised>>

\* A thread needs the catalog of an identifier.
ThreadNeedsCatalog ==
    /\ \E t \in Threads, dept_id \in CatalogIds : CatalogEnter(t, dept_id)
    /\ RaceFrame

\* The get_cinema call of a thread answers or fails.
ThreadStoresCatalog ==
    /\ \E t \in Threads, up \in BOOLEAN : CatalogStore(t, up)
    /\ RaceFrame

\* A thread needs a name map.
ThreadNeedsNameMap ==
    /\ \E t \in Threads, call \in NameMaps : NameMapEnter(t, call)
    /\ RaceFrame

\* The get_departements / get_top_villes call of a thread answers or fails.
ThreadStoresNameMap ==
    /\ \E t \in Threads, up \in BOOLEAN : NameMapStore(t, up)
    /\ RaceFrame

-----------------------------------------------------------------------------
(* showtimes.py: _format_showtime_list on its own *)

\* the raw showtimes of a film version
RawTimes == {Iso(9, 5), Iso(14, 0), Iso(16, 30), Iso(20, 15), BadTime}

RawLists == SeqsUpTo(RawTimes, MaxTimes)

\* no call of _format_showtime_list on its own
FormatIdle ==
    /\ tpc = "idle"
    /\ arg_raw_list = <<>>
    /\ ret_times = <<>>

\* a call of _format_showtime_list about to run
FormatInit ==
    /\ tpc = "called"
    /\ arg_raw_list \in RawLists
    /\ ret_times = <<>>

\* lines 364-373
Format ==
    /\ tpc = "called"
    /\ ret_times' = _format_showtime_list(arg_raw_list)
    /\ tpc' = "returned"
    /\ UNCHANGED arg_raw_list
    /\ UNCHANGED <<fvars, evars, rvars, lookups, threads>>

-----------------------------------------------------------------------------
(* Specifications *)

Init == FindInit /\ EnrichInit /\ ResolveIdle /\ FormatIdle /\ LocateInit /\ RaceInit

\* one find_cinemas request
Next == FindCinemas \/ EndpointAnswers \/ EndpointFails

Spec == Init /\ [][Next]_vars

\* one enrich_cinemas_with_showtimes call
NextEnrich == Enrich \/ EnrichSkip \/ EnrichLookUp

SpecEnrich == Init /\ [][NextEnrich]_vars

\* one _find_best_allocine_cinema call on any catalog and name
NextResolve == Resolve

InitResolve ==
    FindInit /\ EnrichInit /\ ResolveInit /\ FormatIdle /\ LocateInit /\ RaceInit

SpecResolve == InitResolve /\ [][NextResolve]_vars

\* one _format_showtime_list call on any list
NextFormat == Format

InitFormat ==
    FindInit /\ EnrichInit /\ ResolveIdle /\ FormatInit /\ LocateInit /\ RaceInit

SpecFormat == InitFormat /\ [][NextFormat]_vars

\* calls of _reverse_geocode_department in one process
NextLocate == ReverseGeocode

SpecLocate == Init /\ [][NextLocate]_vars

\* request threads populating the caches at the same time
NextRace ==
    ThreadNeedsCatalog \/ ThreadStoresCatalog \/ ThreadNeedsNameMap \/ ThreadStoresNameMap

SpecRace == Init /\ [][NextRace]_vars

-----------------------------------------------------------------------------
(* Properties of _query_overpass and find_cinemas *)

Terminated == pc \in {"done", "raised"}

\* every configured endpoint was contacted and none answered
AllEndpointsFailed == served.from = 0 /\ Len(posted) = Len(OVERPASS_URLS)

EmptyResponse == [elements |-> <<>>]

Range(q) == {q[i] : i \in 1..Len(q)}

CLat == Float(center_lat)
CLon == Float(center_lon)

\* C1: one call of _query_overpass contacts the endpoints strictly in list
\* order, each at most once, and never more than len(OVERPASS_URLS) of them;
\* when the k-th endpoint is the first to answer, exactly k requests were
\* made, the call is over and its return value is that endpoint's body.
C1_FailoverInOrder ==
    /\ Len(posted) <= Len(OVERPASS_URLS)
    /\ \A i \in 1..Len(posted) : posted[i].url = OVERPASS_URLS[i]
    /\ served.from > 0 =>
          /\ Len(posted) = served.from
          /\ pc = "done"
          /\ data = served.body
    /\ Len(posted) = Len(OVERPASS_URLS) => Terminated

\* the first two mirrors failed and the third answered with records
C1_Witness ==
    /\ pc = "done"
    /\ served.from = 3
    /\ Len(posted) = 3
    /\ served.body.elements # <<>>

\* C2 as stated: when every endpoint fails the caller gets a failure value
\* that no successful response can equal and that carries the cause of the
\* last failure, and nothing is raised.
C2_TypedFailure ==
    (Terminated /\ AllEndpointsFailed) =>
        /\ raised = ""
        /\ data \notin Bodies
        /\ "error" \in DOMAIN data
        /\ data.error = served.failed

\* C2 amended: when every endpoint fails, _query_overpass raises nothing and
\* returns the empty record set {"elements": []}, the value a mirror answering
\* with no element returns too; the cause of the last endpoint's failure is
\* what last_error holds (and the final log line prints).
C2_EmptyRecordSetOnFailure ==
    AllEndpointsFailed =>
        /\ Terminated
        /\ raised = ""
        /\ data = EmptyResponse
        /\ data \in Bodies
        /\ last_error = served.failed

\* all three mirrors failed, the last one with a 504
C2_Witness ==
    /\ AllEndpointsFailed
    /\ pc = "done"
    /\ last_error = [kind |-> "504", url |-> OVERPASS_URLS[3]]

\* C3: when all endpoints fail, find_cinemas called with a valid centre
\* returns the empty list and raises nothing.
C3_EmptyListOnTotalFailure ==
    (FloatOk(center_lat) /\ FloatOk(center_lon) /\ AllEndpointsFailed) =>
        /\ pc = "done"
        /\ raised = ""
        /\ cinemas = <<>>

\* find_cinemas has returned after three failed requests
C3_Witness ==
    /\ pc = "done"
    /\ FloatOk(center_lat) /\ FloatOk(center_lon)
    /\ Len(posted) = 3
    /\ served.from = 0
    /\ cinemas = <<>>

\* the radius of the caller clamped into [1.0 km, 100 km]
ClampedIntoFloorAndCap(r) ==
    IF r < 1000 THEN 1000 ELSE IF r > 100000 THEN 100000 ELSE r

\* the radius find_cinemas uses: 1.0 km for a non-positive radius, 100 km
\* for a radius above 100 km, the radius itself otherwise
RadiusUsed(r) ==
    IF r <= 0 THEN 1000 ELSE IF r > 100000 THEN 100000 ELSE r

\* C6 as stated: every radius below 1.0 km, those in (0, 1) included, is
\* raised to 1.0, every radius above 100 is lowered to 100, and that value
\* is used for the query and the distance filter.
C6_ClampIntoOneToCap ==
    pc \in {"fetching", "done"} =>
        /\ radius_km = ClampedIntoFloorAndCap(req_radius)
        /\ \A i \in 1..Len(posted) :
              posted[i].query.radius_m = ClampedIntoFloorAndCap(req_radius)

\* C6 amended: a radius <= 0 is replaced by 1.0 km, a radius above 100 km
\* is lowered to 100 km, and a radius in (0, 100] (values below 1.0 km
\* included) is used unchanged; that value is the one every query carries
\* and the one the distance filter compares with.
C6_RadiusUsed ==
    pc \in {"fetching", "done"} =>
        /\ radius_km = RadiusUsed(req_radius)
        /\ \A i \in 1..Len(posted) :
              posted[i].query.radius_m = RadiusUsed(req_radius)
        /\ pc = "done" =>
              cinemas = ProcessResponse(data, CLat, CLon, RadiusUsed(req_radius), max_results)

\* a request for 0.5 km was sent as 0.5 km and a named cinema 0.8 km away,
\* which a 1.0 km radius would keep, was dropped
C6_Witness ==
    /\ pc = "done"
    /\ req_radius = 500
    /\ posted[1].query.radius_m = 500
    /\ \E el \in Range(data.elements) : el.name = "Lux"
    /\ \A c \in Range(cinemas) : c.name # "Lux"

\* C7: every returned cinema lies within the radius used, and so within
\* 100 km, of the centre, whatever the endpoint returned.
C7_WithinRadius ==
    pc = "done" =>
        \A c \in Range(cinemas) :
            /\ _haversine_km(CLat, CLon, c.latitude, c.longitude) <= radius_km
            /\ _haversine_km(CLat, CLon, c.latitude, c.longitude) <= MAX_RADIUS_KM

\* 150 km were asked for, the endpoint returned a cinema 120 km away next to
\* a closer one, and only the closer one is returned
C7_Witness ==
    /\ pc = "done"
    /\ req_radius = 150000
    /\ \E el \in Range(data.elements) : el.name = "Rex"
    /\ cinemas # <<>>
    /\ \A c \in Range(cinemas) : c.name # "Rex"

\* the element passes every test of the loop other than the duplicate test
Usable(el) == Kept(el, {}, CLat, CLon, radius_km)

\* max_results did not cut the list
NotTruncated == max_results <= 0 \/ Len(cinemas) < max_results

\* C8 as stated: identity is (element type, id).  No two returned cinemas
\* come from elements with the same pair, and a usable element is dropped
\* as a duplicate only when an earlier usable element has the same type and
\* the same id.
C8_DedupByTypeAndId ==
    (pc = "done" /\ NotTruncated) =>
        \A j \in 1..Len(data.elements) :
            LET el == data.elements[j]
            IN  (/\ Usable(el)
                 /\ \A i \in 1..(j - 1) :
                       ~(/\ Usable(data.elements[i])
                         /\ data.elements[i].type = el.type
                         /\ data.elements[i].id = el.id))
                => \E c \in Range(cinemas) : c.id = el.id /\ c.name = el.name

\* C9: the returned list is non-decreasing in distanceKm.
C9_SortedByDistance ==
    pc = "done" =>
        \A i \in 1..Len(cinemas) : \A j \in i..Len(cinemas) :
            cinemas[i].distanceKm <= cinemas[j].distanceKm

\* the endpoint listed the farther cinema first and it is returned second
C9_Witness ==
    /\ pc = "done"
    /\ Len(cinemas) >= 2
    /\ cinemas[1].distanceKm < cinemas[2].distanceKm
    /\ data.elements[1].name = cinemas[2].name

\* C10 as stated: at most min(max_results, 200) cinemas are returned, for
\* every max_results (taken here over the non-negative ones, for which the
\* minimum is a length).
C10_AtMostMinOfMaxAnd200 ==
    (pc = "done" /\ max_results >= 0) => Len(cinemas) <= Min(max_results, 200)

\* C10 amended: for a positive max_results at most max_results cinemas are
\* returned (the first ones of the sorted list); for max_results zero,
\* negative or None nothing is cut and every kept cinema is returned; the
\* code applies no ceiling of 200.
C10_TruncatedWhenPositive ==
    pc = "done" =>
        /\ max_results > 0 => Len(cinemas) <= max_results
        /\ max_results <= 0 =>
              Len(cinemas) = Len(Collect(data.elements, CLat, CLon, radius_km))

\* two cinemas were kept and max_results = 1 left one
C10_Witness ==
    /\ pc = "done"
    /\ max_results = 1
    /\ Len(Collect(data.elements, CLat, CLon, radius_km)) >= 2
    /\ Len(cinemas) = 1

-----------------------------------------------------------------------------
(* Properties of enrich_cinemas_with_showtimes *)

\* the places where a loop body leaves its cinema alone: line 470 and the
\* early returns of get_showtimes_for_cinema
SkipPoints ==
    {"missing_field", "bad_coordinate", "no_department", "no_department_id",
     "no_match", "no_cinema_id", "fetch_failed"}

\* the positions of the list whose cinema carries showtimes
Enriched == {p \in 1..Len(batch) : batch[p].has_showtimes}

EnrichedBefore(p) == {q \in Enriched : q < p}

ContactedAt(p) == {c \in contacted : c[1] = p}

\* C4: whatever the cinemas and whichever upstream calls fail, the call never
\* raises; a cinema whose loop body ended at a skip point is exactly as it
\* was passed; a cinema whose chain gave showtimes carries them with the
\* date; and the loop ends only at the end of the list or at line 464.
C4_SkipPointsAreNoOps ==
    /\ epc # "raised"
    /\ eraised = ""
    /\ \A p \in 1..Len(visited) :
          /\ visited[p] \in SkipPoints => batch[p] = given[p]
          /\ visited[p] = "fetched" =>
                /\ batch[p].has_showtimes
                /\ batch[p].showtimes # <<>>
                /\ batch[p].showtimesDate = date_str
                /\ batch[p] = Attach(given[p], batch[p].showtimes, date_str)
    /\ epc = "done" => Len(visited) = Len(batch) \/ count >= max_cinemas

\* the showtime fetch failed for the first cinema and the second one was
\* enriched all the same
C4_Witness ==
    /\ epc = "done"
    /\ visited = <<"fetch_failed", "fetched">>
    /\ batch[1] = given[1]
    /\ batch[2].has_showtimes

-----------------------------------------------------------------------------
(* Properties of find_cinemas: the centre and the coordinates of a record *)

\* a centre that float() accepts but that lies outside [-90, 90] x [-180, 180]
OutOfRange(lat, lon) ==
    FloatOk(lat) /\ FloatOk(lon) /\ (Abs(Float(lat)) > 900000 \/ Abs(Float(lon)) > 1800000)

\* C11: a call whose centre is non-numeric or out of range ends with the
\* validation error (ValueError) and no request was posted to any endpoint.
C11_InvalidCentreRejected ==
    (pc # "idle" /\ (~FloatOk(center_lat) \/ ~FloatOk(center_lon)
                     \/ OutOfRange(center_lat, center_lon)))
        => pc = "raised" /\ raised = "ValueError" /\ posted = <<>>

-----------------------------------------------------------------------------
(* Properties of _find_best_allocine_cinema *)

TargetNorm == _normalize_text(arg_target_name)

\* the candidates the scan looks at: those that have a name
NamedAt == {i \in 1..Len(arg_candidates) : ~Falsy(arg_candidates[i].name)}

NormAt(i) == _normalize_text(arg_candidates[i].name)

\* the positions of the candidates whose normalized name is the target's
ExactAt == {i \in NamedAt : NormAt(i) = TargetNorm}

FirstOf(S) == CHOOSE i \in S : \A j \in S : i <= j

\* the cumulative score: 3 for containment either way plus the number of
\* words in common
CumulativeScore(t, c) ==
    (IF IsSubstring(t, c) \/ IsSubstring(c, t) THEN 3 ELSE 0)
    + Cardinality(TokenSet(t) \cap TokenSet(c))

ScoreAt(i) == CumulativeScore(TargetNorm, NormAt(i))

\* the positions of the candidates that attain the maximum score
TopAt == {i \in NamedAt : \A j \in NamedAt : ScoreAt(j) <= ScoreAt(i)}

\* C12: when the normalized target is not empty and some candidate's
\* normalized name equals it, the call returns such a candidate (the first
\* of them in the catalog), whatever stands before or after it.
C12_ExactMatchWins ==
    (rpc = "returned" /\ TargetNorm # <<>> /\ ExactAt # {})
        => ret_best = Match(arg_candidates[FirstOf(ExactAt)])

\* the exact match comes second, behind a candidate that contains the
\* target and would score 5
C12_Witness ==
    /\ rpc = "returned"
    /\ Len(arg_candidates) = 2
    /\ arg_candidates[1].id = "C0010"
    /\ arg_candidates[2].id = "C0002"
    /\ TargetNorm = <<"l", "e", " ", "r", "e", "x">>
    /\ ScoreAt(1) = 5
    /\ ret_best.found /\ ret_best.id = "C0002"

-----------------------------------------------------------------------------
(* Properties of _reverse_geocode_department *)

\* the coarse pass of lookup i found no department although it named the
\* region Ile-de-France
CoarseAmbiguous(i) ==
    /\ Falsy(_extract_department_name_from_address(lookups[i].coarse))
    /\ lookups[i].coarse.state = ILE_DE_FRANCE

\* lookup i did not find its key in the cache
Missed(i) == \A j \in 1..(i - 1) : lookups[j].key # lookups[i].key

\* C14: the outcome of every lookup, a name or None, is in the cache under
\* the point rounded to 3 decimals, and a later lookup of a point with the
\* same key returns the same outcome without any request to Nominatim.
C14_CachedOutcomeReused ==
    /\ \A i \in 1..Len(lookups) :
          /\ lookups[i].key \in DOMAIN _DEPT_NAME_CACHE
          /\ _DEPT_NAME_CACHE[lookups[i].key] = lookups[i].name
    /\ \A i, j \in 1..Len(lookups) :
          (i < j /\ lookups[i].key = lookups[j].key)
              => lookups[j].name = lookups[i].name /\ lookups[j].zooms = <<>>

\* Nominatim failed for a point of Toulouse, None was cached, and the lookup
\* of another point with the same key returned None without a request
C14_Witness ==
    /\ Len(lookups) = 2
    /\ lookups[1].point = <<436042, 14442>>
    /\ lookups[2].point = <<436038, 14438>>
    /\ lookups[1].key = lookups[2].key
    /\ lookups[1].zooms = <<10>>
    /\ lookups[1].name = NoneS
    /\ lookups[2].name = NoneS
    /\ lookups[2].zooms = <<>>

\* C15 as stated: on a cache miss the request at zoom 18 is made, once,
\* exactly when the coarse pass found no department and named the region
\* Ile-de-France.
C15_SecondPassWhenAmbiguous ==
    \A i \in 1..Len(lookups) :
        Missed(i) => lookups[i].zooms = (IF CoarseAmbiguous(i) THEN <<10, 18>> ELSE <<10>>)

\* C15: on a cache miss the request at zoom 18 is made, once, exactly when
\* the coarse pass found no department, named the region Ile-de-France and
\* carried neither a county nor a postcode; a coarse answer with a postcode
\* that maps to no department gets no second request.
C15_SecondPassWithoutPostcode ==
    \A i \in 1..Len(lookups) :
        Missed(i) =>
            lookups[i].zooms =
                (IF /\ CoarseAmbiguous(i)
                    /\ Falsy(lookups[i].coarse.county)
                    /\ Falsy(lookups[i].coarse.postcode)
                 THEN <<10, 18>> ELSE <<10>>)

\* the coarse pass for Melun named only the region, the request at zoom 18
\* was made and failed, and the lookup gave up
C15_Witness ==
    /\ Len(lookups) = 1
    /\ lookups[1].key = <<485400, 26600>>
    /\ CoarseAmbiguous(1)
    /\ lookups[1].zooms = <<10, 18>>
    /\ lookups[1].name = NoneS

-----------------------------------------------------------------------------
(* Properties of the catalog cache and of the records attached *)

\* C16: get_cinema is called at most once with a given identifier, every
\* identifier it was called with has its catalog in _CINEMAS_BY_DEPT, and a
\* cinema that resolves to an identifier already there is matched against
\* the cached catalog.
C16_CatalogFetchedOncePerId ==
    /\ \A i, j \in 1..Len(catalog_requests) :
          i # j => catalog_requests[i] # catalog_requests[j]
    /\ DOMAIN _CINEMAS_BY_DEPT = {catalog_requests[i] : i \in 1..Len(catalog_requests)}
    /\ Cardinality({c \in contacted : c[2] = "get_cinema"}) = Len(catalog_requests)

\* two cinemas of Toulouse: the catalog of the department was requested for
\* the first one and the second one was matched against it without a request
C16_Witness ==
    /\ epc = "done"
    /\ Len(visited) = 2
    /\ visited[1] = "fetched"
    /\ visited[2] = "no_match"
    /\ catalog_requests = <<"departement-31">>
    /\ <<1, "get_cinema">> \in contacted
    /\ <<2, "get_cinema">> \notin contacted

-----------------------------------------------------------------------------
(* Properties of the caches under concurrent requests *)

\* C17: no step replaces a published entry by different content: a catalog
\* stored under an identifier stays as it is, and so does a name map once
\* it is loaded.
C17_PublishedEntriesNeverReplaced ==
    [][ /\ \A d \in DOMAIN _CINEMAS_BY_DEPT :
              d \in DOMAIN _CINEMAS_BY_DEPT' /\ _CINEMAS_BY_DEPT'[d] = _CINEMAS_BY_DEPT[d]
        /\ _DEPARTMENTS_BY_NAME.loaded => _DEPARTMENTS_BY_NAME' = _DEPARTMENTS_BY_NAME
        /\ _CITIES_BY_NAME.loaded => _CITIES_BY_NAME' = _CITIES_BY_NAME ]_vars

\* C21: once the cache holds an empty catalog for an identifier (what a
\* failed get_cinema leaves there), every later state holds an empty catalog
\* for it, so no later lookup of that identifier calls the service or finds
\* a cinema.
C21_FailedCatalogStaysEmpty ==
    [][ \A d \in DOMAIN _CINEMAS_BY_DEPT :
            _CINEMAS_BY_DEPT[d] = <<>> =>
                d \in DOMAIN _CINEMAS_BY_DEPT' /\ _CINEMAS_BY_DEPT'[d] = <<>> ]_vars

\* C18 as stated: a cinema whose chain succeeded with zero records carries
\* the empty list and the date.
C18_EmptyRecordsAttached ==
    \A p \in 1..Len(visited) :
        visited[p] = "no_showtimes" =>
            /\ batch[p].has_showtimes
            /\ batch[p].showtimes = <<>>
            /\ batch[p].showtimesDate = date_str

\* C18: a cinema whose chain succeeded with zero records is left exactly as
\* it was passed, like a cinema that was not enriched, and a cinema carries
\* showtimes only when there is at least one record.
C18_EmptyRecordsNotAttached ==
    /\ \A p \in 1..Len(visited) : visited[p] = "no_showtimes" => batch[p] = given[p]
    /\ \A p \in 1..Len(batch) : batch[p].has_showtimes => batch[p].showtimes # <<>>

\* department, identifier and cinema were resolved for "Le Rex", get_showtime
\* answered with no record, and the cinema is as it was passed
C18_Witness ==
    /\ epc = "done"
    /\ visited = <<"no_showtimes">>
    /\ <<1, "get_showtime">> \in contacted
    /\ batch[1].name = <<"L", "e", " ", "R", "e", "x">>
    /\ batch[1] = given[1]
    /\ ~batch[1].has_showtimes

-----------------------------------------------------------------------------
(* Properties of _format_showtime_list *)

Parsable(t) == t.k = "iso"

\* C19 as stated: the output has the length of the input, a timestamp that
\* parses is replaced by its HH:MM form and one that does not is at the same
\* position unchanged.
C19_UnparsablePassedThrough ==
    tpc = "returned" =>
        /\ Len(ret_times) = Len(arg_raw_list)
        /\ \A i \in 1..Len(arg_raw_list) :
              ret_times[i] = (IF Parsable(arg_raw_list[i]) THEN HHMM(arg_raw_list[i])
                              ELSE arg_raw_list[i])

\* C19: the output is the HH:MM forms of the timestamps that parse, in their
\* order; a timestamp that does not parse is dropped, so the output is
\* shorter than the input by the number of such timestamps.
C19_UnparsableDropped ==
    tpc = "returned" =>
        LET parsed == SelectSeq(arg_raw_list, Parsable)
        IN  /\ Len(ret_times) = Len(parsed)
            /\ \A i \in 1..Len(parsed) : ret_times[i] = HHMM(parsed[i])

\* 14:00, a text that does not parse, 16:30: two times come out
C19_Witness ==
    /\ tpc = "returned"
    /\ arg_raw_list = <<Iso(14, 0), BadTime, Iso(16, 30)>>
    /\ ret_times = <<HHMM(Iso(14, 0)), HHMM(Iso(16, 30))>>

-----------------------------------------------------------------------------
(* Properties of find_cinemas: which coordinates a record gets *)

\* the element at position j is the first of the response with its id and
\* has a name, so that only its coordinates decide what becomes of it
DecidedByCoordinates(j) ==
    /\ data.elements[j].name # ""
    /\ \A i \in 1..(j - 1) : data.elements[i].id # data.elements[j].id

\* the cinema returned for an element, with the coordinates (la, lo)
ReturnedAt(el, la, lo) ==
    \E c \in Range(cinemas) :
        c.id = el.id /\ c.name = el.name /\ c.latitude = la /\ c.longitude = lo

\* a coordinate pair that is there, converts and lies within the radius
InReach(la, lo) ==
    /\ la.k # "none" /\ lo.k # "none"
    /\ FloatOk(la) /\ FloatOk(lo)
    /\ _haversine_km(CLat, CLon, Float(la), Float(lo)) <= radius_km

HasDirect(el) == el.lat.k # "none" /\ el.lon.k # "none"

\* C20 as stated: whatever the element type, the direct coordinates are
\* used when present and the centroid otherwise, and the record is returned
\* with them when they convert and are in reach.
C20_DirectThenCentroid ==
    (pc = "done" /\ NotTruncated) =>
        \A j \in 1..Len(data.elements) :
            LET el == data.elements[j]
                la == IF HasDirect(el) THEN el.lat ELSE el.clat
                lo == IF HasDirect(el) THEN el.lon ELSE el.clon
            IN  (DecidedByCoordinates(j) /\ InReach(la, lo))
                    => ReturnedAt(el, Float(la), Float(lo))

\* C20: the element type selects the coordinates: lat/lon for a node, the
\* centroid for any other type.  A record is returned, with the selected
\* pair, exactly when that pair is there, converts and is in reach; a node
\* that only has a centroid and a way that only has lat/lon are skipped.
\* Whether a record is skipped does not depend on the records before it.
C20_CoordinatesByElementType ==
    (pc = "done" /\ NotTruncated) =>
        \A j \in 1..Len(data.elements) :
            LET el == data.elements[j]
                la == IF el.type = "node" THEN el.lat ELSE el.clat
                lo == IF el.type = "node" THEN el.lon ELSE el.clon
            IN  DecidedByCoordinates(j) =>
                    /\ InReach(la, lo) => ReturnedAt(el, Float(la), Float(lo))
                    /\ ~InReach(la, lo) => \A c \in Range(cinemas) : c.name # el.name

\* a relation without coordinates is skipped and the way after it is
\* returned with its centroid
C20_Witness ==
    /\ pc = "done"
    /\ Len(data.elements) = 2
    /\ data.elements[1].name = "Star"
    /\ data.elements[2].name = "Gaumont"
    /\ Len(cinemas) = 1
    /\ cinemas[1].name = "Gaumont"
    /\ cinemas[1].latitude = 1800

=============================================================================
